---- MODULE Spec2Model ----
(***************************************************************************)
(* Model of the real-time collaboration relay of RecipeSync                *)
(* (server/src/ws/collaboration.ts): the WebSocket handshake, the room     *)
(* registry, the broadcast relay, the debounced persistence and the        *)
(* heartbeat; and of what the relay works with: the REST routes that       *)
(* change who may open a recipe, the presence service                      *)
(* (server/src/services/presence.ts) and the mobile client's hook          *)
(* useYjsCollaboration (mobile/src/api/auth.ts).                           *)
(*                                                                         *)
(* Node runs every handler to completion on one event loop, so each        *)
(* action below is one callback (or the part of the async connection       *)
(* handler between two awaits).                                            *)
(***************************************************************************)
EXTENDS Integers, Sequences, FiniteSets, TLC

(* ---- the finite world the model is run in ---- *)
Conns == {"c1", "c2", "c3"}          \* sockets; each is opened at most once
Pair == {"c1", "c2"}                 \* the sockets opened in the two-client runs
Docs == {"d1"}                       \* recipe ids that exist in the recipes table
Users == {"u1", "u2", "u3"}
NoUser == "nobody"
MissingDoc == "dX"                   \* a recipe id with no row in recipes
MaxSend == 2                         \* frames one client sends over its socket
MaxFrames == 3                       \* frames all clients send together

(* recipes.owner_id, and the roles of recipe_collaborators.role *)
Owner(d) == "u1"
Roles == {"editor", "viewer"}
NoRole == "none"

(* setTimeout delay of debouncedPersist, 3000 ms, in units of 1500 ms ticks *)
DebounceTicks == 2

(* PRESENCE_TTL, 60 s, in units of 30 s ticks; the clock stops at MaxClock *)
PresenceTtl == 2
MaxClock == 4
NoExpiry == 0 - 1
NoEntry == [field |-> "none", timestamp |-> 0 - 1]
Fields == {"null", "title"}

(* the mobile clients: instances of the hook useYjsCollaboration *)
Hooks == {"h1", "h2"}
NoHook == "none"
NoConn == "none"
MaxEdits == 1                        \* local edits one client makes
HookUser(h) == IF h = "h1" THEN "u1" ELSE "u2"
HookRecipe(h) == "d1"

(* close codes *)
CodeInvalid == 4001
CodeNotFound == 4004
CodeForbidden == 4003
CodeServerError == 4000

Tokens == {"missing", "invalid"} \cup Users
RoomIds == 1..Cardinality(Conns)
NoRoom == 0
NoTimer == [doc |-> "none", room |-> NoRoom, left |-> 0]

VARIABLES
  sock,          \* ws.readyState of each socket: NONE (not yet upgraded), OPEN, CLOSING, CLOSED;
                 \* TERMINATED: CLOSING by terminate(), the TCP socket destroyed
  pc,            \* position of the async connection handler of each socket
  userId,        \* payload.userId / ws.userId
  recipeId,      \* recipeId parsed from the URL
  recipe,        \* recipe.yjs_document as read by the query of line 52
  tokenKind,     \* the token of the upgrade request: none yet, missing, invalid, valid
  closeCode,     \* code of the close frame the server sent, 0 if none
  closeReason,   \* reason of the close frame the server sent, "" if none
  room,          \* the room object captured by the handlers of the socket
  outbox,        \* frames the server has sent on the socket, in order
  sendCount,     \* number of frames the client has sent on the socket
  rooms,         \* the registry: recipeId -> room object (NoRoom: no entry)
  nextRoom,      \* identity of the next room object to be constructed
  roomOf,        \* recipeId a room object was constructed for
  roomDoc,       \* Y.Doc of a room object: the set of updates merged into it
  roomConns,     \* connections set of a room object
  timers,        \* live setTimeout handles
  persistTimers, \* the persistTimers map: recipeId -> handle
  inflight,      \* db updates issued by persistDoc and not yet resolved
  storage,       \* recipes.yjs_document
  applyErrors,   \* number of 'Error applying Yjs update' log lines
  sinceUpdate,   \* per recipe: ticks since the last applied update (capped)
  isAlive,       \* ws.isAlive: unset (undefined), yes (true), no (false)
  pinged,        \* a ping frame was sent on the socket and no pong has come back
  silent,        \* the client has stopped answering pings
  missed,        \* heartbeat ticks the socket has been through since it fell silent
  recipeRows,    \* ids of the rows of the recipes table
  collabRows,    \* recipe_collaborators: per recipe, the role of each user (NoRole: no row)
  presence,      \* redis: the hash presence:<recipeId>, userId -> {field, timestamp}
  presenceTtl,   \* redis: ticks until the key presence:<recipeId> expires (NoExpiry: none set)
  expireCalls,   \* setPresence calls that have done hSet and not yet expire
  now,           \* Date.now(), in ticks
  hookPc,        \* per hook: unmounted, awaitToken (connect() at its await), idle
  destroyed,     \* per hook: the flag the cleanup of the effect sets
  wsRef,         \* per hook: wsRef.current
  reconnectTimer,\* per hook: the 2 s reconnect timeout is pending
  clientDoc,     \* per hook: docRef.current, the set of updates merged into it
  edits,         \* per hook: number of local edits made
  sockHook,      \* per socket: the hook that created it
  cstate,        \* per socket, client side: none, created, closing (close() called), closed
  delivered      \* per socket: frames of outbox the client has received

connVars == <<sock, pc, userId, tokenKind, recipeId, recipe, closeCode, closeReason, room, outbox, sendCount>>
roomVars == <<rooms, nextRoom, roomOf, roomDoc, roomConns>>
persistVars == <<timers, persistTimers, inflight, storage>>
logVars == <<applyErrors, sinceUpdate>>
liveVars == <<isAlive, pinged, silent, missed>>
dbVars == <<recipeRows, collabRows>>
presenceVars == <<presence, presenceTtl, expireCalls, now>>
hookVars == <<hookPc, destroyed, wsRef, reconnectTimer, clientDoc, edits, sockHook, cstate, delivered>>
envVars == <<dbVars, presenceVars, hookVars>>
vars == <<connVars, roomVars, persistVars, logVars, liveVars, envVars>>

\* the users with a row in recipe_collaborators for recipe d
Collaborators(d) == {u \in Users : collabRows[d][u] # NoRole}
\* db('recipes').where({ id }).first() finds a row
RecipeFound(id) == id \in recipeRows

(* ---- the CRDT capability (yjs), as a grow-only set of update ids ---- *)
EmptyDoc == {}
ApplyUpdate(doc, update) == doc \cup update
EncodeStateAsUpdate(doc) == doc

\* a bug: the state of a new Y.Doc is sent instead of the room's
SnapshotOfNewDoc(doc) == [kind |-> "snapshot", data |-> EncodeStateAsUpdate(EmptyDoc)]

Snapshot(doc) == [kind |-> "snapshot", data |-> EncodeStateAsUpdate(doc)]
UpdateFrame(c, n) == [kind |-> "update", data |-> {<<c, n>>}]

(* ---- ws ---- *)
\* a bug: the frame jumps the queue of the socket
SendFirst(box, state, frame) == IF state = "OPEN" THEN <<frame>> \o box ELSE box

\* ws.send(data): queued on an OPEN socket, silently dropped otherwise
Send(box, state, frame) == IF state = "OPEN" THEN Append(box, frame) ELSE box

\* ws.close(code, reason): starts the closing handshake of an OPEN socket
CloseState(state) == IF state = "OPEN" THEN "CLOSING" ELSE state
CloseCodeSent(state, old, code) == IF state = "OPEN" THEN code ELSE old

\* the reason string the handler passes along with each code it closes with
\* after the token checks
Reason(code) ==
  CASE code = CodeNotFound -> "Recipe not found"
    [] code = CodeForbidden -> "Access denied"
    [] OTHER -> "Server error"

Init ==
  /\ sock = [c \in Conns |-> "NONE"]
  /\ pc = [c \in Conns |-> "idle"]
  /\ userId = [c \in Conns |-> NoUser]
  /\ recipeId = [c \in Conns |-> "none"]
  /\ recipe = [c \in Conns |-> EmptyDoc]
  /\ tokenKind = [c \in Conns |-> "none"]
  /\ closeCode = [c \in Conns |-> 0]
  /\ closeReason = [c \in Conns |-> ""]
  /\ room = [c \in Conns |-> NoRoom]
  /\ outbox = [c \in Conns |-> <<>>]
  /\ sendCount = [c \in Conns |-> 0]
  /\ rooms = [d \in Docs |-> NoRoom]
  /\ nextRoom = 1
  /\ roomOf = [r \in RoomIds |-> "none"]
  /\ roomDoc = [r \in RoomIds |-> EmptyDoc]
  /\ roomConns = [r \in RoomIds |-> {}]
  /\ timers = {}
  /\ persistTimers = [d \in Docs |-> NoTimer]
  /\ inflight = {}
  /\ storage = [d \in Docs |-> EmptyDoc]
  /\ applyErrors = 0
  /\ sinceUpdate = [d \in Docs |-> 0]
  /\ isAlive = [c \in Conns |-> "unset"]
  /\ pinged = [c \in Conns |-> FALSE]
  /\ silent = [c \in Conns |-> FALSE]
  /\ missed = [c \in Conns |-> 0]
  /\ recipeRows = Docs
  /\ presence = [d \in Docs |-> [u \in Users |-> NoEntry]]
  /\ presenceTtl = [d \in Docs |-> NoExpiry]
  /\ expireCalls = {}
  /\ now = 0
  /\ hookPc = [h \in Hooks |-> "unmounted"]
  /\ destroyed = [h \in Hooks |-> FALSE]
  /\ wsRef = [h \in Hooks |-> NoConn]
  /\ reconnectTimer = [h \in Hooks |-> FALSE]
  /\ clientDoc = [h \in Hooks |-> EmptyDoc]
  /\ edits = [h \in Hooks |-> 0]
  /\ sockHook = [c \in Conns |-> NoHook]
  /\ cstate = [c \in Conns |-> "none"]
  /\ delivered = [c \in Conns |-> 0]
  /\ collabRows = [d \in Docs |-> [u \in Users |-> IF u = "u2" THEN "editor" ELSE NoRole]]

(* ---- persistence ---- *)
\* persistDoc(recipeId, doc): encodes the doc now, issues the db update
PersistDoc(d, r, cause) ==
  [doc |-> d, room |-> r, state |-> EncodeStateAsUpdate(roomDoc[r]), cause |-> cause]

\* a bug: the pending timer is not cancelled
ClearNothing(ts, handle) == ts

\* debouncedPersist(recipeId, doc): the timers left after clearTimeout
ClearTimeout(ts, handle) == ts \ {handle}

DebouncedPersist(d, r) ==
  LET fresh == [doc |-> d, room |-> r, left |-> DebounceTicks]
  IN /\ timers' = ClearTimeout(timers, persistTimers[d]) \cup {fresh}
     /\ persistTimers' = [persistTimers EXCEPT ![d] = fresh]
     /\ sinceUpdate' = [sinceUpdate EXCEPT ![d] = 0]

(* ---- the connection handler, lines 30-122 ---- *)
\* sockets are named in the order the server accepts them
Rank(c) == CASE c = "c1" -> 1 [] c = "c2" -> 2 [] OTHER -> 3
Earlier(b, c) == Rank(b) < Rank(c)

\* ws.close(code) and return: the locals of the handler are gone
Reject(c, code) ==
  /\ sock' = [sock EXCEPT ![c] = CloseState(@)]
  /\ closeCode' = [closeCode EXCEPT ![c] = CloseCodeSent(sock[c], @, code)]
  /\ closeReason' = [closeReason EXCEPT ![c] = CloseCodeSent(sock[c], @, Reason(code))]
  /\ pc' = [pc EXCEPT ![c] = "done"]
  /\ userId' = [userId EXCEPT ![c] = NoUser]
  /\ UNCHANGED tokenKind
  /\ recipeId' = [recipeId EXCEPT ![c] = "none"]
  /\ recipe' = [recipe EXCEPT ![c] = EmptyDoc]
  /\ UNCHANGED isAlive

(* the upgrade request: GET <path>?token=<token>, with path              *)
(* /ws/recipe/<id> (id possibly absent) or some other path                 *)
PathParts(seg) == <<"ws", "recipe">> \o seg
\* pathParts[pathParts.length - 1]
RecipeIdOf(parts) == parts[Len(parts)]
Segments == {<<>>} \cup {<<d>> : d \in Docs \cup {MissingDoc}}
AbsentId == RecipeIdOf(PathParts(<<>>))
KindOf(token) == IF token \in Users THEN "valid" ELSE token

\* a bug: the check of line 37 is left out
NoCredentialCheck(token, id) == FALSE

\* !token || !recipeId
MissingCredentials(token, id) == token = "missing" \/ id = ""

\* a bug: the token is decoded without its signature being verified
DecodeToken(token) == IF token \in Users THEN token ELSE IF token = "invalid" THEN "u1" ELSE NoUser

\* jwt.verify: the userId of the payload, NoUser when it throws
VerifyToken(token) == IF token \in Users THEN token ELSE NoUser

\* the upgrade handler and the synchronous head of the connection handler,
\* up to the first await
Connect(c, wsPath, token, seg) ==
  LET id == RecipeIdOf(PathParts(seg))
      closeWith(reason) ==
        /\ sock' = [sock EXCEPT ![c] = "CLOSING"]
        /\ closeCode' = [closeCode EXCEPT ![c] = CodeInvalid]
        /\ closeReason' = [closeReason EXCEPT ![c] = reason]
        /\ pc' = [pc EXCEPT ![c] = "done"]
        /\ UNCHANGED <<userId, recipeId>>
  IN /\ sock[c] = "NONE"
     /\ \A b \in Conns : Earlier(b, c) => sock[b] # "NONE"
     /\ tokenKind' = [tokenKind EXCEPT ![c] = KindOf(token)]
     /\ IF ~wsPath
          THEN \* socket.destroy(): no WebSocket comes to exist
               /\ sock' = [sock EXCEPT ![c] = "REFUSED"]
               /\ pc' = [pc EXCEPT ![c] = "done"]
               /\ UNCHANGED <<userId, recipeId, closeCode, closeReason>>
          ELSE IF MissingCredentials(token, id)
            THEN closeWith("Missing token or recipe ID")
            ELSE IF VerifyToken(token) = NoUser
              THEN closeWith("Invalid token")
              ELSE /\ sock' = [sock EXCEPT ![c] = "OPEN"]
                   /\ userId' = [userId EXCEPT ![c] = VerifyToken(token)]
                   /\ recipeId' = [recipeId EXCEPT ![c] = id]
                   /\ pc' = [pc EXCEPT ![c] = "awaitRecipe"]
                   /\ UNCHANGED <<closeCode, closeReason>>
     /\ UNCHANGED <<recipe, room, outbox, sendCount, roomVars, persistVars, logVars, liveVars, envVars>>

\* lines 68-113: join the room of the recipe, creating it when absent
\* a bug: a room is constructed and registered on every join
AlwaysCreateRoom(d) == nextRoom

GetOrCreateRoom(d) == IF rooms[d] = NoRoom THEN nextRoom ELSE rooms[d]

Join(c, bytes) ==
  LET d == recipeId[c]
      r == GetOrCreateRoom(d)
      created == r = nextRoom
      doc == IF created THEN ApplyUpdate(EmptyDoc, bytes) ELSE roomDoc[r]
  IN /\ rooms' = [rooms EXCEPT ![d] = r]
     /\ nextRoom' = IF created THEN nextRoom + 1 ELSE nextRoom
     /\ roomOf' = [roomOf EXCEPT ![r] = d]
     /\ roomDoc' = [roomDoc EXCEPT ![r] = doc]
     /\ roomConns' = [roomConns EXCEPT ![r] = @ \cup {c}]
     /\ room' = [room EXCEPT ![c] = r]
     /\ outbox' = [outbox EXCEPT ![c] = Send(@, sock[c], Snapshot(doc))]
     /\ pc' = [pc EXCEPT ![c] = "active"]
     /\ recipe' = [recipe EXCEPT ![c] = EmptyDoc]
     /\ isAlive' = [isAlive EXCEPT ![c] = "yes"]
     /\ UNCHANGED <<sock, closeCode, closeReason, userId, tokenKind, recipeId>>

\* a bug: the collaborator lookup is skipped for everybody
AnyoneIsOwner(u, d) == TRUE

\* recipe.owner_id === payload.userId
IsOwner(u, d) == Owner(d) = u

\* the query of line 52 resolves
RecipeLoaded(c) ==
  /\ pc[c] = "awaitRecipe"
  /\ IF ~RecipeFound(recipeId[c])
       THEN /\ Reject(c, CodeNotFound)
            /\ UNCHANGED <<room, outbox, roomVars>>
       ELSE IF IsOwner(userId[c], recipeId[c])
         THEN Join(c, storage[recipeId[c]])
         ELSE /\ recipe' = [recipe EXCEPT ![c] = storage[recipeId[c]]]
              /\ pc' = [pc EXCEPT ![c] = "awaitCollab"]
              /\ UNCHANGED <<sock, closeCode, closeReason, userId, tokenKind, recipeId, room, outbox, roomVars, isAlive>>
  /\ UNCHANGED <<sendCount, persistVars, logVars, pinged, silent, missed, envVars>>

\* the query of line 59 resolves
CollabLoaded(c) ==
  /\ pc[c] = "awaitCollab"
  /\ IF userId[c] \in Collaborators(recipeId[c])
       THEN Join(c, recipe[c])
       ELSE /\ Reject(c, CodeForbidden)
            /\ UNCHANGED <<room, outbox, roomVars>>
  /\ UNCHANGED <<sendCount, persistVars, logVars, pinged, silent, missed, envVars>>

\* a query rejects: the catch of line 118
DbError(c) ==
  /\ pc[c] \in {"awaitRecipe", "awaitCollab"}
  /\ Reject(c, CodeServerError)
  /\ UNCHANGED <<room, outbox, sendCount, roomVars, persistVars, logVars, pinged, silent, missed, envVars>>

(* ---- ws.on('message'), lines 89-105 ---- *)
RECURSIVE SumSent(_)
SumSent(S) == IF S = {} THEN 0 ELSE LET x == CHOOSE x \in S : TRUE IN sendCount[x] + SumSent(S \ {x})
FramesSent == SumSent(Conns)

\* a bug: the frame is echoed to its sender
RecipientsWithSender(r, c, applied) ==
  IF applied THEN {p \in roomConns[r] : sock[p] = "OPEN"} ELSE {}

\* a bug: the frame is forwarded before it is applied
RecipientsBeforeApply(r, c, applied) ==
  {p \in roomConns[r] : p # c /\ sock[p] = "OPEN"}

\* the clients a frame from c is forwarded to
Recipients(r, c, applied) ==
  IF applied THEN {p \in roomConns[r] : p # c /\ sock[p] = "OPEN"} ELSE {}

\* a bug: the 'message' listener is attached before the awaits and looks
\* the room up in the registry
HandlerRoomBeforeAuth(c) ==
  IF pc[c] = "active" THEN room[c]
  ELSE IF recipeId[c] \in Docs THEN rooms[recipeId[c]] ELSE NoRoom

\* the room whose 'message' listener handles the frames of c (NoRoom: the
\* listener of line 89 is not attached yet)
HandlerRoom(c) == IF pc[c] = "active" THEN room[c] ELSE NoRoom

\* the 'message' event of socket c with frame as its data; ok: the frame
\* decodes as a Yjs update
OnMessage(c, frame, ok) ==
  LET r == HandlerRoom(c)
      d == recipeId[c]
      to == Recipients(r, c, ok)
  IN IF r = NoRoom
       THEN \* no 'message' listener yet: the frame is lost
            UNCHANGED <<outbox, roomDoc, timers, persistTimers, applyErrors, sinceUpdate>>
       ELSE /\ outbox' = [p \in Conns |-> IF p \in to THEN Send(outbox[p], sock[p], frame) ELSE outbox[p]]
            /\ IF ok
                 THEN /\ roomDoc' = [roomDoc EXCEPT ![r] = ApplyUpdate(@, frame.data)]
                      /\ DebouncedPersist(d, r)
                      /\ UNCHANGED applyErrors
                 ELSE /\ applyErrors' = applyErrors + 1
                      /\ UNCHANGED <<roomDoc, timers, persistTimers, sinceUpdate>>

\* a client sends its next frame on socket c and the server handles it
Message(c, ok) ==
  LET n == sendCount[c] + 1
  IN /\ sock[c] = "OPEN"
     /\ sendCount[c] < MaxSend
     /\ FramesSent < MaxFrames
     /\ sendCount' = [sendCount EXCEPT ![c] = n]
     /\ OnMessage(c, UpdateFrame(c, n), ok)
     /\ UNCHANGED <<sock, pc, userId, tokenKind, recipeId, recipe, closeCode, closeReason, room>>
     /\ UNCHANGED <<rooms, nextRoom, roomOf, roomConns, inflight, storage, liveVars, envVars>>

(* ---- socket teardown and ws.on('close'), lines 107-113 ---- *)
\* the client starts the closing handshake
ClientClose(c) ==
  /\ sock[c] = "OPEN"
  /\ sock' = [sock EXCEPT ![c] = "CLOSING"]
  /\ UNCHANGED <<pc, userId, tokenKind, recipeId, recipe, closeCode, closeReason, room, outbox, sendCount>>
  /\ UNCHANGED <<roomVars, persistVars, logVars, liveVars, envVars>>

\* a bug: the room is kept when its last member leaves
NeverEmptied(r, c) == FALSE

\* is the registry entry of recipe d deleted when c leaves room r
Emptied(r, c) == roomConns[r] \ {c} = {}

\* the TCP socket is gone: readyState CLOSED, 'close' is emitted
SocketClosed(c) ==
  /\ sock[c] \in {"OPEN", "CLOSING", "TERMINATED"}
  /\ sock' = [sock EXCEPT ![c] = "CLOSED"]
  /\ IF pc[c] = "active"
       THEN LET r == room[c]
                d == recipeId[c]
            IN /\ roomConns' = [roomConns EXCEPT ![r] = @ \ {c}]
               /\ IF Emptied(r, c)
                    THEN /\ inflight' = inflight \cup {PersistDoc(d, r, "close")}
                         /\ rooms' = [rooms EXCEPT ![d] = NoRoom]
                    ELSE UNCHANGED <<inflight, rooms>>
       ELSE \* no 'close' listener: nothing runs
            UNCHANGED <<roomConns, inflight, rooms>>
  /\ UNCHANGED <<pc, userId, tokenKind, recipeId, recipe, closeCode, closeReason, room, outbox, sendCount>>
  /\ UNCHANGED <<nextRoom, roomOf, roomDoc, timers, persistTimers, storage>>
  /\ UNCHANGED <<applyErrors, sinceUpdate, liveVars, envVars>>

(* ---- the debounce timer, lines 145-156 ---- *)
Due(t) == t.left = 0

FireTimer(t) ==
  /\ Due(t)
  /\ timers' = timers \ {t}
  /\ inflight' = inflight \cup {PersistDoc(t.doc, t.room, "timer")}
  /\ persistTimers' = [persistTimers EXCEPT ![t.doc] = NoTimer]
  /\ UNCHANGED <<connVars, roomVars, storage, applyErrors, sinceUpdate, liveVars, envVars>>

TimerFires == \E t \in timers : FireTimer(t)

\* time passes by one tick; a due timer runs before time moves on
Tick ==
  /\ \A t \in timers : ~Due(t)
  /\ timers # {}
  /\ timers' = {[t EXCEPT !.left = @ - 1] : t \in timers}
  /\ persistTimers' = [d \in Docs |->
        IF persistTimers[d] = NoTimer THEN NoTimer ELSE [persistTimers[d] EXCEPT !.left = @ - 1]]
  /\ sinceUpdate' = [d \in Docs |->
        IF sinceUpdate[d] <= DebounceTicks THEN sinceUpdate[d] + 1 ELSE sinceUpdate[d]]
  /\ UNCHANGED <<connVars, roomVars, inflight, storage, applyErrors, liveVars, envVars>>

(* ---- the db update of persistDoc resolves, lines 158-165 ---- *)
\* the row as the update of write w leaves it
Written(w) == IF RecipeFound(w.doc) THEN [storage EXCEPT ![w.doc] = w.state] ELSE storage

SaveDone ==
  \E w \in inflight :
    /\ inflight' = inflight \ {w}
    /\ storage' = Written(w)
    /\ UNCHANGED <<connVars, roomVars, timers, persistTimers, logVars, liveVars, envVars>>

\* a bug: a failed save closes the clients of the room
SaveFailedClosesClients ==
  \E w \in inflight :
    /\ inflight' = inflight \ {w}
    /\ sock' = [c \in Conns |-> IF c \in roomConns[w.room] THEN CloseState(sock[c]) ELSE sock[c]]
    /\ UNCHANGED <<pc, userId, tokenKind, recipeId, recipe, closeCode, closeReason, room, outbox, sendCount>>
    /\ UNCHANGED <<roomVars, timers, persistTimers, storage, logVars, liveVars, envVars>>

\* the update rejects: the catch of line 162 logs and drops it
SaveFailed ==
  \E w \in inflight :
    /\ inflight' = inflight \ {w}
    /\ UNCHANGED <<connVars, roomVars, timers, persistTimers, storage, logVars, liveVars, envVars>>

(* ---- the heartbeat, lines 115-117 and 124-135 ---- *)
\* wss.clients: the sockets upgraded and not yet closed
Clients == {c \in Conns : sock[c] \in {"OPEN", "CLOSING"}}

\* ws.terminate(): readyState CLOSING and the TCP socket destroyed
Terminate(state) == "TERMINATED"

\* a bug: the flag is left as it is when the ping is sent
AfterPingKeeps(flag) == flag

\* authWs.isAlive = false, before the ping
AfterPing(flag) == "no"

\* one run of the interval callback over wss.clients; the 'close' events of
\* the sockets the run before terminated have been emitted
Heartbeat ==
  LET dead == {c \in Clients : isAlive[c] # "yes"}
      alive == Clients \ dead
  IN /\ Clients # {}
     /\ \A c \in Conns : sock[c] # "TERMINATED"
     /\ sock' = [c \in Conns |-> IF c \in dead THEN Terminate(sock[c]) ELSE sock[c]]
     /\ isAlive' = [c \in Conns |-> IF c \in alive THEN AfterPing(isAlive[c]) ELSE isAlive[c]]
     /\ pinged' = [c \in Conns |-> IF c \in alive /\ sock[c] = "OPEN" THEN TRUE ELSE pinged[c]]
     /\ missed' = [c \in Conns |-> IF c \in Clients /\ silent[c] THEN missed[c] + 1 ELSE missed[c]]
     /\ UNCHANGED <<pc, userId, tokenKind, recipeId, recipe, closeCode, closeReason, room, outbox, sendCount>>
     /\ UNCHANGED <<roomVars, persistVars, logVars, silent, envVars>>

\* the client answers the ping: ws.on('pong') of line 115, attached at the join
Pong(c) ==
  /\ sock[c] = "OPEN" /\ pinged[c] /\ ~silent[c]
  /\ pinged' = [pinged EXCEPT ![c] = FALSE]
  /\ isAlive' = [isAlive EXCEPT ![c] = IF pc[c] = "active" THEN "yes" ELSE @]
  /\ UNCHANGED <<connVars, roomVars, persistVars, logVars, silent, missed, envVars>>

\* a joined client stops answering: its pongs no longer arrive
GoSilent(c) ==
  /\ sock[c] = "OPEN" /\ pc[c] = "active" /\ ~silent[c]
  /\ silent' = [silent EXCEPT ![c] = TRUE]
  /\ UNCHANGED <<connVars, roomVars, persistVars, logVars, isAlive, pinged, missed, envVars>>

(* ---- the REST routes that change who may open a recipe ---- *)
\* POST /recipes/:id/collaborators by user `by`: only the owner may invite
InviteCollaborator(by, d, u, role) ==
  /\ RecipeFound(d) /\ Owner(d) = by
  /\ collabRows[d][u] = NoRole
  /\ collabRows' = [collabRows EXCEPT ![d][u] = role]
  /\ UNCHANGED <<recipeRows, connVars, roomVars, persistVars, logVars, liveVars, presenceVars, hookVars>>

\* PUT /recipes/:id/collaborators/:uid
UpdateRole(by, d, u, role) ==
  /\ RecipeFound(d) /\ Owner(d) = by
  /\ collabRows[d][u] \notin {NoRole, role}
  /\ collabRows' = [collabRows EXCEPT ![d][u] = role]
  /\ UNCHANGED <<recipeRows, connVars, roomVars, persistVars, logVars, liveVars, presenceVars, hookVars>>

\* DELETE /recipes/:id/collaborators/:uid: the row is deleted, nothing else
RemoveCollaborator(by, d, u) ==
  /\ RecipeFound(d) /\ Owner(d) = by
  /\ collabRows[d][u] # NoRole
  /\ collabRows' = [collabRows EXCEPT ![d][u] = NoRole]
  /\ UNCHANGED <<recipeRows, connVars, roomVars, persistVars, logVars, liveVars, presenceVars, hookVars>>

\* DELETE /recipes/:id: the row is deleted and its collaborator rows cascade
DeleteRecipe(by, d) ==
  /\ RecipeFound(d) /\ Owner(d) = by
  /\ recipeRows' = recipeRows \ {d}
  /\ collabRows' = [collabRows EXCEPT ![d] = [u \in Users |-> NoRole]]
  /\ UNCHANGED <<connVars, roomVars, persistVars, logVars, liveVars, presenceVars, hookVars>>

(* ---- the presence service, services/presence.ts ---- *)
\* the redis key presence:<d> exists: a hash with no field left is deleted
KeyExists(h) == \E u \in Users : h[u] # NoEntry

\* client.expire(key, seconds) on an existing key
Expire(ttl, d, seconds) == [ttl EXCEPT ![d] = seconds]

\* setPresence up to the await of hSet: the field userId of the hash is
\* written; the time to live of the key is left as it was
SetPresence(d, u, field) ==
  /\ <<d, u>> \notin expireCalls
  /\ presence' = [presence EXCEPT ![d][u] = [field |-> field, timestamp |-> now]]
  /\ expireCalls' = expireCalls \cup {<<d, u>>}
  /\ UNCHANGED <<presenceTtl, now, connVars, roomVars, persistVars, logVars, liveVars, dbVars, hookVars>>

\* setPresence after hSet: client.expire(key, PRESENCE_TTL)
SetPresenceExpire ==
  \E call \in expireCalls :
    /\ expireCalls' = expireCalls \ {call}
    /\ presenceTtl' = IF KeyExists(presence[call[1]])
                        THEN Expire(presenceTtl, call[1], PresenceTtl)
                        ELSE presenceTtl
    /\ UNCHANGED <<presence, now, connVars, roomVars, persistVars, logVars, liveVars, dbVars, hookVars>>

\* removePresence: client.hDel(key, userId)
RemovePresence(d, u) ==
  /\ presence[d][u] # NoEntry
  /\ presence' = [presence EXCEPT ![d][u] = NoEntry]
  /\ presenceTtl' = IF KeyExists(presence'[d]) THEN presenceTtl ELSE [presenceTtl EXCEPT ![d] = NoExpiry]
  /\ UNCHANGED <<expireCalls, now, connVars, roomVars, persistVars, logVars, liveVars, dbVars, hookVars>>

\* one tick of time: redis deletes the keys whose time to live runs out; the
\* expire of a setPresence under way comes long before the tick
PresenceTick ==
  LET left(d) == IF presenceTtl[d] = NoExpiry THEN NoExpiry ELSE presenceTtl[d] - 1
  IN /\ now < MaxClock
     /\ expireCalls = {}
     /\ now' = now + 1
     /\ presence' = [d \in Docs |-> IF left(d) = 0 THEN [u \in Users |-> NoEntry] ELSE presence[d]]
     /\ presenceTtl' = [d \in Docs |-> IF left(d) = 0 THEN NoExpiry ELSE left(d)]
     /\ UNCHANGED <<expireCalls, connVars, roomVars, persistVars, logVars, liveVars, dbVars, hookVars>>

(* ---- the client hook useYjsCollaboration, mobile/src/api/auth.ts ---- *)
\* ws.readyState as the client sees it
ReadyState(c) ==
  CASE cstate[c] = "created" -> IF sock[c] = "NONE" THEN "CONNECTING" ELSE "OPEN"
    [] cstate[c] = "closing" -> "CLOSING"
    [] cstate[c] = "closed" -> "CLOSED"
    [] OTHER -> "NONE"

\* the socket the next `new WebSocket` creates
FreeConn == CHOOSE c \in Conns : cstate[c] = "none" /\ \A b \in Conns : Earlier(b, c) => cstate[b] # "none"

serverVars == <<connVars, roomVars, persistVars, logVars, liveVars, dbVars, presenceVars>>

\* the effect runs: doc.on('update', updateHandler); connect() up to its await
Mount(h) ==
  /\ hookPc[h] = "unmounted"
  /\ hookPc' = [hookPc EXCEPT ![h] = "awaitToken"]
  /\ UNCHANGED <<destroyed, wsRef, reconnectTimer, clientDoc, edits, sockHook, cstate, delivered, serverVars>>

\* AsyncStorage.getItem resolves: connect() goes on, without looking at
\* `destroyed` again; hasToken: a token is stored
TokenLoaded(h, hasToken) ==
  /\ hookPc[h] = "awaitToken"
  /\ hookPc' = [hookPc EXCEPT ![h] = "idle"]
  /\ IF hasToken
       THEN /\ \E c \in Conns : cstate[c] = "none"
            /\ cstate' = [cstate EXCEPT ![FreeConn] = "created"]
            /\ sockHook' = [sockHook EXCEPT ![FreeConn] = h]
            /\ wsRef' = [wsRef EXCEPT ![h] = FreeConn]
       ELSE UNCHANGED <<cstate, sockHook, wsRef>>
  /\ UNCHANGED <<destroyed, reconnectTimer, clientDoc, edits, delivered, serverVars>>

\* updateHandler(update, origin) with an origin other than 'remote': the
\* update goes out on wsRef.current when that is OPEN, else nowhere; the
\* server handles the frame when its side of the socket is open
UpdateHandler(h, data) ==
  LET w == wsRef[h]
  IN IF w # NoConn /\ ReadyState(w) = "OPEN"
       THEN /\ sendCount' = [sendCount EXCEPT ![w] = @ + 1]
            /\ IF sock[w] = "OPEN"
                 THEN OnMessage(w, [kind |-> "update", data |-> data], TRUE)
                 ELSE UNCHANGED <<outbox, roomDoc, timers, persistTimers, applyErrors, sinceUpdate>>
       ELSE UNCHANGED <<sendCount, outbox, roomDoc, timers, persistTimers, applyErrors, sinceUpdate>>

\* what UpdateHandler leaves alone on the server
BesidesTheFrame ==
  UNCHANGED <<sock, pc, userId, tokenKind, recipeId, recipe, closeCode, closeReason, room,
              rooms, nextRoom, roomOf, roomConns, inflight, storage, liveVars, dbVars, presenceVars>>

\* the user edits the recipe: a transaction on the local doc, whose
\* 'update' event runs updateHandler
LocalEdit(h) ==
  LET id == <<h, edits[h] + 1>>
  IN /\ hookPc[h] # "unmounted" /\ ~destroyed[h]
     /\ edits[h] < MaxEdits
     /\ edits' = [edits EXCEPT ![h] = @ + 1]
     /\ clientDoc' = [clientDoc EXCEPT ![h] = ApplyUpdate(@, {id})]
     /\ UpdateHandler(h, {id})
     /\ BesidesTheFrame
     /\ UNCHANGED <<hookPc, destroyed, wsRef, reconnectTimer, sockHook, cstate, delivered>>

\* a bug: the local doc is replaced by the state received
ApplyRemoteReplaces(doc, data) == data

\* ws.onmessage: Y.applyUpdate(doc, update)
ApplyRemote(doc, data) == ApplyUpdate(doc, data)

\* ws.onmessage of socket c for the next frame the server sent on it; the
\* update is applied without the origin 'remote', so what it changes in the
\* doc is handed to updateHandler like a local edit
HookOnMessage(c) ==
  LET h == sockHook[c]
      data == outbox[c][delivered[c] + 1].data
      news == data \ clientDoc[h]
  IN /\ cstate[c] \in {"created", "closing"}
     /\ delivered[c] < Len(outbox[c])
     /\ delivered' = [delivered EXCEPT ![c] = @ + 1]
     /\ IF destroyed[h]
          THEN UNCHANGED <<clientDoc, sendCount, outbox, roomDoc, timers, persistTimers, applyErrors, sinceUpdate>>
          ELSE /\ clientDoc' = [clientDoc EXCEPT ![h] = ApplyRemote(@, data)]
               /\ IF news # {}
                    THEN UpdateHandler(h, news)
                    ELSE UNCHANGED <<sendCount, outbox, roomDoc, timers, persistTimers, applyErrors, sinceUpdate>>
     /\ BesidesTheFrame
     /\ UNCHANGED <<hookPc, destroyed, wsRef, reconnectTimer, edits, sockHook, cstate>>

\* ws.onclose of socket c: the connection is gone and every frame sent
\* before has been received
HookOnClose(c) ==
  LET h == sockHook[c]
  IN /\ cstate[c] \in {"created", "closing"}
     /\ sock[c] \in {"CLOSED", "REFUSED"}
     /\ delivered[c] = Len(outbox[c])
     /\ cstate' = [cstate EXCEPT ![c] = "closed"]
     /\ reconnectTimer' = [reconnectTimer EXCEPT ![h] = IF destroyed[h] THEN @ ELSE TRUE]
     /\ UNCHANGED <<hookPc, destroyed, wsRef, clientDoc, edits, sockHook, delivered, serverVars>>

\* the reconnect timeout fires: connect() up to its await
ReconnectFires(h) ==
  /\ reconnectTimer[h]
  /\ reconnectTimer' = [reconnectTimer EXCEPT ![h] = FALSE]
  /\ hookPc' = [hookPc EXCEPT ![h] = IF destroyed[h] THEN @ ELSE "awaitToken"]
  /\ UNCHANGED <<destroyed, wsRef, clientDoc, edits, sockHook, cstate, delivered, serverVars>>

\* the cleanup of the effect
Cleanup(h) ==
  LET w == wsRef[h]
  IN /\ hookPc[h] # "unmounted" /\ ~destroyed[h]
     /\ destroyed' = [destroyed EXCEPT ![h] = TRUE]
     /\ cstate' = IF w # NoConn /\ cstate[w] = "created"
                     THEN [cstate EXCEPT ![w] = "closing"] ELSE cstate
     /\ reconnectTimer' = [reconnectTimer EXCEPT ![h] = FALSE]
     /\ UNCHANGED <<hookPc, wsRef, clientDoc, edits, sockHook, delivered, serverVars>>

Next ==
  \/ \E c \in Pair, token \in {"invalid"} \cup Users, d \in Docs \cup {MissingDoc} :
        Connect(c, TRUE, token, <<d>>)
  \/ \E c \in Conns : RecipeLoaded(c)
  \/ \E c \in Conns : CollabLoaded(c)
  \/ \E c \in Conns : DbError(c)
  \/ \E c \in Conns, ok \in BOOLEAN : Message(c, ok)
  \/ \E c \in Conns : ClientClose(c)
  \/ \E c \in Conns : SocketClosed(c)
  \/ TimerFires
  \/ Tick
  \/ SaveDone
  \/ SaveFailed

Spec == Init /\ [][Next]_vars

(* Three sockets of the recipe's owner, within one debounce window: the    *)
(* runs in which the frames of several senders interleave.                 *)
NextTrio ==
  \/ \E c \in Conns, d \in Docs : Connect(c, TRUE, Owner(d), <<d>>)
  \/ \E c \in Conns : RecipeLoaded(c)
  \/ \E c \in Conns, ok \in BOOLEAN : Message(c, ok)
  \/ \E c \in Conns : ClientClose(c)
  \/ \E c \in Conns : SocketClosed(c)

SpecTrio == Init /\ [][NextTrio]_vars

(* The gateway alone: every kind of upgrade request, no timers, no saves.   *)
NextGate ==
  \/ \E c \in Pair, wsPath \in BOOLEAN, token \in Tokens, seg \in Segments :
        Connect(c, wsPath, token, seg)
  \/ \E c \in Conns : RecipeLoaded(c)
  \/ \E c \in Conns : CollabLoaded(c)
  \/ \E c \in Conns : DbError(c)
  \/ \E c \in Conns : Message(c, TRUE)
  \/ \E c \in Conns : ClientClose(c)
  \/ \E c \in Conns : SocketClosed(c)

SpecGate == Init /\ [][NextGate]_vars

(* The liveness monitor: joins, heartbeats, pongs and clients falling       *)
(* silent, no frames and no timers.                                         *)
NextLive ==
  \/ \E c \in Conns, token \in {"u1", "u2"}, d \in Docs : Connect(c, TRUE, token, <<d>>)
  \/ \E c \in Conns : RecipeLoaded(c)
  \/ \E c \in Conns : CollabLoaded(c)
  \/ Heartbeat
  \/ \E c \in Conns : Pong(c)
  \/ \E c \in Conns : GoSilent(c)
  \/ \E c \in Conns : ClientClose(c)
  \/ \E c \in Conns : SocketClosed(c)

SpecLive == Init /\ [][NextLive]_vars

(* The relay while the owner changes who may open the recipe.              *)
NextAccess ==
  \/ \E c \in Pair, token \in {"u2", "u3"}, d \in Docs : Connect(c, TRUE, token, <<d>>)
  \/ \E c \in Conns : RecipeLoaded(c)
  \/ \E c \in Conns : CollabLoaded(c)
  \/ \E c \in Conns : Message(c, TRUE)
  \/ \E c \in Conns : SocketClosed(c)
  \/ \E d \in Docs, role \in Roles : InviteCollaborator(Owner(d), d, "u3", role)
  \/ \E d \in Docs, u \in Users, role \in Roles : UpdateRole(Owner(d), d, u, role)
  \/ \E d \in Docs, u \in Users : RemoveCollaborator(Owner(d), d, u)
  \/ \E d \in Docs : DeleteRecipe(Owner(d), d)

SpecAccess == Init /\ [][NextAccess]_vars

(* The presence service under the calls of its three users.                *)
NextPresence ==
  \/ \E d \in Docs, u \in Users, field \in Fields : SetPresence(d, u, field)
  \/ SetPresenceExpire
  \/ \E d \in Docs, u \in Users : RemovePresence(d, u)
  \/ PresenceTick

SpecPresence == Init /\ [][NextPresence]_vars

\* the upgrade request of a socket a hook created reaches the server
UpgradeRequest(c) ==
  /\ cstate[c] # "none"
  /\ Connect(c, TRUE, HookUser(sockHook[c]), <<HookRecipe(sockHook[c])>>)

\* the close frame of a socket the client closed reaches the server
CloseFrame(c) == cstate[c] = "closing" /\ ClientClose(c)

\* the connection of the joined collaborator is lost
CollaboratorLost(c) == sockHook[c] = "h2" /\ pc[c] = "active" /\ SocketClosed(c)

(* One mobile client through its whole life: mounted, connected, cut off,  *)
(* reconnected after 2 s, unmounted; within one debounce window.           *)
NextHook ==
  \/ Mount("h1")
  \/ \E hasToken \in BOOLEAN : TokenLoaded("h1", hasToken)
  \/ LocalEdit("h1")
  \/ \E c \in Conns : HookOnMessage(c)
  \/ \E c \in Conns : HookOnClose(c)
  \/ ReconnectFires("h1")
  \/ Cleanup("h1")
  \/ \E c \in Conns : UpgradeRequest(c)
  \/ \E c \in Conns : RecipeLoaded(c)
  \/ \E c \in Conns : CloseFrame(c)
  \/ \E c \in Conns : SocketClosed(c)
  \/ SaveDone

SpecHook == Init /\ [][NextHook]_vars

(* Two mobile clients that stay mounted, the owner and a collaborator:     *)
(* both edit; the collaborator loses its connection while joined and       *)
(* reconnects.                                                             *)
NextPeers ==
  \/ \E h \in Hooks : Mount(h)
  \/ \E h \in Hooks : TokenLoaded(h, TRUE)
  \/ \E h \in Hooks : LocalEdit(h)
  \/ \E c \in Conns : HookOnMessage(c)
  \/ \E c \in Conns : HookOnClose(c)
  \/ \E h \in Hooks : ReconnectFires(h)
  \/ \E c \in Conns : UpgradeRequest(c)
  \/ \E c \in Conns : RecipeLoaded(c)
  \/ \E c \in Conns : CollabLoaded(c)
  \/ \E c \in Conns : CollaboratorLost(c)

SpecPeers == Init /\ [][NextPeers]_vars

(* ---- vocabulary of the properties ---- *)
Edits(h) == {<<h, k>> : k \in 1..edits[h]}
\* hook h is connected through socket c, joined, and nothing sent to it is
\* still on its way
Settled(h, c) ==
  /\ wsRef[h] = c /\ ~destroyed[h] /\ cstate[c] = "created"
  /\ sock[c] = "OPEN" /\ pc[c] = "active"
  /\ delivered[c] = Len(outbox[c])
Reconnected(h, c) == \E b \in Conns : b # c /\ sockHook[b] = h
HasAccess(u, d) == RecipeFound(d) /\ (Owner(d) = u \/ collabRows[d][u] # NoRole)
RelayUntouched == UNCHANGED <<roomDoc, outbox, timers, persistTimers, inflight, storage>>
Member(c) == \E r \in RoomIds : c \in roomConns[r]
NeverJoined(c) == ~Member(c) /\ room[c] = NoRoom /\ outbox[c] = <<>>
Upgraded(c) == sock[c] \in {"OPEN", "CLOSING", "CLOSED"}
SaveResolvedInVain == inflight' # inflight /\ inflight' \subseteq inflight /\ storage' = storage
NoSavePending(r) == (\A w \in inflight : w.room # r) /\ (\A t \in timers : t.room # r)
Constructed(r) == r < nextRoom
Live(r) == Constructed(r) /\ roomConns[r] # {}
TornDown(r) == Constructed(r) /\ roomConns[r] = {}
Registered(r) == Constructed(r) /\ rooms[roomOf[r]] = r
IsUpdate(f) == f.kind = "update"
FrameId(f) == CHOOSE id \in f.data : TRUE
Unflushed(r) == ~(roomDoc[r] \subseteq storage[roomOf[r]])
NewSaves == inflight' \ inflight
JoinsNow(c) == pc[c] # "active" /\ pc'[c] = "active"
AppliedFrom(c) == sendCount'[c] # sendCount[c] /\ pc[c] = "active" /\ applyErrors' = applyErrors

(* C1: the first frame the server sends to a connection that joins a room  *)
(* is the snapshot of the room's state at the join; every later frame is a *)
(* relayed update, so no update is sent before the snapshot.               *)
C1_SnapshotFirst ==
  /\ [](\A c \in Conns : \A i \in DOMAIN outbox[c] :
          IF i = 1 THEN outbox[c][i].kind = "snapshot" ELSE outbox[c][i].kind = "update")
  /\ [][\A c \in Conns : JoinsNow(c) /\ sock[c] = "OPEN" =>
          outbox'[c] = <<[kind |-> "snapshot", data |-> roomDoc'[room'[c]]]>>]_vars

C1_Witness ==
  \E c \in Conns : /\ Len(outbox[c]) >= 2
                    /\ outbox[c][1].kind = "snapshot"
                    /\ outbox[c][1].data # {}
                    /\ outbox[c][2].kind = "update"

(* C2: per-sender FIFO: on every socket the frames relayed from one sender *)
(* appear in the order the sender sent them, each at most once.            *)
C2_PerSenderFifo ==
  \A b \in Conns : \A i, j \in DOMAIN outbox[b] :
    (i < j /\ IsUpdate(outbox[b][i]) /\ IsUpdate(outbox[b][j])
       /\ FrameId(outbox[b][i])[1] = FrameId(outbox[b][j])[1])
    => FrameId(outbox[b][i])[2] < FrameId(outbox[b][j])[2]

\* a socket has received two frames of one sender with a frame of another
\* sender between them
C2_Witness ==
  \E b \in Conns : \E i, k, j \in DOMAIN outbox[b] :
    /\ i < k /\ k < j
    /\ IsUpdate(outbox[b][i]) /\ IsUpdate(outbox[b][k]) /\ IsUpdate(outbox[b][j])
    /\ FrameId(outbox[b][i])[1] = FrameId(outbox[b][j])[1]
    /\ FrameId(outbox[b][k])[1] # FrameId(outbox[b][i])[1]

(* C3: a frame from member c that applies is merged into the state of c's  *)
(* room and appended, as received, to the socket of every other member     *)
(* whose socket is open, and to no other socket (not to c).                *)
C3_ApplyThenRelay ==
  [][\A c \in Conns : AppliedFrom(c) =>
       LET id == <<c, sendCount'[c]>>
           r == room[c]
       IN /\ roomDoc'[r] = roomDoc[r] \cup {id}
          /\ \A p \in Conns :
               outbox'[p] = IF p # c /\ p \in roomConns[r] /\ sock[p] = "OPEN"
                              THEN Append(outbox[p], [kind |-> "update", data |-> {id}])
                              ELSE outbox[p]]_vars

\* a frame of c has reached both other members and not c
C3_Witness ==
  \E c \in Conns :
    /\ sock[c] = "OPEN" /\ Len(outbox[c]) = 1
    /\ <<c, 1>> \in roomDoc[room[c]]
    /\ \A p \in Conns \ {c} :
         /\ room[p] = room[c] /\ sock[p] = "OPEN"
         /\ Len(outbox[p]) = 2 /\ IsUpdate(outbox[p][2]) /\ FrameId(outbox[p][2]) = <<c, 1>>

(* C4: single-flight room creation: every room object that has members is  *)
(* the one registered for its recipe, so a recipe never has two rooms with *)
(* members; every joined connection whose socket is not closed is in the   *)
(* connection set of the registered room of its recipe; and a room is      *)
(* constructed only by a join that finds no room registered for its recipe.*)
C4_SingleFlight ==
  /\ [](/\ \A r \in RoomIds : Live(r) => Registered(r)
        /\ \A d \in Docs : rooms[d] # NoRoom => Live(rooms[d]) /\ roomOf[rooms[d]] = d
        /\ \A c \in Conns : (pc[c] = "active" /\ sock[c] # "CLOSED") =>
              /\ rooms[recipeId[c]] = room[c]
              /\ c \in roomConns[room[c]])
  /\ [][nextRoom' # nextRoom =>
         \E d \in Docs : rooms[d] = NoRoom /\ rooms'[d] = nextRoom /\ nextRoom' = nextRoom + 1]_vars

C4_Witness ==
  \E r \in RoomIds : /\ Cardinality(roomConns[r]) >= 2
                      /\ \A c \in roomConns[r] : sock[c] = "OPEN"
                      /\ nextRoom = 2

(* C5: when the last connection of a room closes, persistDoc is called     *)
(* once for the room, no call for that room follows, and the room is then  *)
(* absent from the registry.                                               *)
C5_OneSaveAtTeardown ==
  /\ [](\A r \in RoomIds : TornDown(r) => ~Registered(r))
  /\ [][\A r \in RoomIds :
         /\ (Live(r) /\ roomConns'[r] = {}) =>
               \E w \in NewSaves : w.room = r /\ w.state = roomDoc[r]
         /\ TornDown(r) => \A w \in NewSaves : w.room # r]_vars

(* C6: debounce: a recipe has at most one live timer, the one the          *)
(* persistTimers map holds, due DebounceTicks after the last applied       *)
(* update; the timer's save is issued exactly then, with no timer left.    *)
C6_Debounce ==
  /\ [](\A d \in Docs :
          /\ {t \in timers : t.doc = d} =
               (IF persistTimers[d] = NoTimer THEN {} ELSE {persistTimers[d]})
          /\ persistTimers[d] # NoTimer =>
               persistTimers[d].left = DebounceTicks - sinceUpdate[d])
  /\ [][\A w \in NewSaves : w.cause = "timer" =>
          /\ sinceUpdate[w.doc] = DebounceTicks
          /\ \A t \in timers' : t.doc # w.doc]_vars

C6_Witness ==
  \E w \in inflight :
    /\ w.cause = "timer" /\ Cardinality(w.state) >= 2
    /\ rooms[w.doc] = w.room /\ storage[w.doc] = {}
    /\ persistTimers[w.doc] = NoTimer

(* C7: a frame that fails to apply is dropped: nothing is forwarded, no    *)
(* timer is armed, and the room's state, its connection set, the registry  *)
(* and every socket stay as they were.                                     *)
C7_MalformedDropped ==
  [][applyErrors' # applyErrors =>
       UNCHANGED <<outbox, timers, persistTimers, roomDoc, roomConns, rooms, sock, inflight, storage>>]_vars

C7_Witness ==
  /\ applyErrors > 0
  /\ \E r \in RoomIds : Cardinality({p \in roomConns[r] : sock[p] = "OPEN"}) >= 2

(* C8: a room is in the registry iff it has a connection whose socket is   *)
(* not closed or holds a mutation that storage does not have.              *)
C8_RegisteredIffNeeded ==
  \A r \in RoomIds : Constructed(r) =>
    (Registered(r) <=> ((\E c \in roomConns[r] : sock[c] # "CLOSED") \/ Unflushed(r)))

(* C9: no room's connection set contains a connection whose socket has     *)
(* closed.                                                                 *)
C9_NoClosedMember ==
  \A r \in RoomIds : \A c \in roomConns[r] : sock[c] # "CLOSED"

(* C10: the registry entry of a room is deleted only after the room's      *)
(* final flush has completed: at the deletion storage holds the room's     *)
(* state and no save of the room is in flight.                             *)
C10_FlushBeforeDelete ==
  [][\A d \in Docs : (rooms[d] # NoRoom /\ rooms'[d] = NoRoom) =>
       /\ storage'[d] = roomDoc[rooms[d]]
       /\ \A w \in inflight' : w.room # rooms[d]]_vars

(* C11: a room's debounce timer is cancelled at teardown: no live timer    *)
(* belongs to a room whose last connection has been removed, so none can   *)
(* fire afterwards.                                                        *)
C11_TimerCancelledAtTeardown ==
  \A t \in timers : ~TornDown(t.room)

(* C13: a failed save is retried without a further update: an open room    *)
(* whose state storage does not hold always has a save of that state in    *)
(* flight or a debounce timer pending.                                     *)
C13_FailedSaveRetried ==
  \A r \in RoomIds :
    (Live(r) /\ Unflushed(r) /\ (\E c \in roomConns[r] : sock[c] = "OPEN")) =>
      \/ \E t \in timers : t.room = r
      \/ \E w \in inflight : w.room = r /\ w.state = roomDoc[r]

(* C14: a room created by a join starts from the bytes storage holds when  *)
(* the room is registered, and these are the first frame of the joiner.    *)
C14_RoomStartsFromStorage ==
  [][\A c \in Conns : (JoinsNow(c) /\ nextRoom' # nextRoom) =>
       /\ roomDoc'[room'[c]] = storage[recipeId[c]]
       /\ sock[c] = "OPEN" =>
            outbox'[c] = <<[kind |-> "snapshot", data |-> storage[recipeId[c]]]>>]_vars

(* C17: a frame sent by a connection whose authorization has not succeeded *)
(* is neither applied to a room nor relayed, and arms no timer.            *)
C17_NoFrameBeforeAuth ==
  [][\A c \in Conns : (sendCount'[c] # sendCount[c] /\ pc[c] # "active") =>
       UNCHANGED <<roomDoc, outbox, timers, persistTimers, inflight, storage>>]_vars

\* a connection still in its handshake has sent a frame while the room of
\* its recipe has an open member
C17_Witness ==
  \E c \in Conns :
    /\ sendCount[c] > 0 /\ pc[c] \in {"awaitRecipe", "awaitCollab"}
    /\ recipeId[c] \in Docs /\ rooms[recipeId[c]] # NoRoom
    /\ \E p \in roomConns[rooms[recipeId[c]]] : sock[p] = "OPEN"

(* C12: a save that fails disturbs nothing: the step that resolves a save  *)
(* without changing storage leaves every room, socket, timer and outbox    *)
(* as it was; and a frame applied while the room's state is unsaved and no *)
(* save is pending is merged, relayed and arms the debounce timer.         *)
C12_SaveFailureHarmless ==
  /\ [][SaveResolvedInVain =>
          UNCHANGED <<roomDoc, roomConns, rooms, sock, pc, closeCode, closeReason, outbox, timers, persistTimers>>]_vars
  /\ [][\A c \in Conns :
          (AppliedFrom(c) /\ Unflushed(room[c]) /\ NoSavePending(room[c])) =>
            LET id == <<c, sendCount'[c]>>
                r == room[c]
            IN /\ roomDoc'[r] = roomDoc[r] \cup {id}
               /\ \E t \in timers' : t.room = r /\ t.left = DebounceTicks
               /\ \A p \in roomConns[r] \ {c} : sock[p] = "OPEN" =>
                     outbox'[p] = Append(outbox[p], [kind |-> "update", data |-> {id}])]_vars

\* the only room ever built has two open members, unsaved state, no save
\* pending (its timer's save failed), and a member can still send
C12_Witness ==
  /\ nextRoom = 2 /\ Registered(1) /\ Unflushed(1) /\ NoSavePending(1)
  /\ storage[roomOf[1]] = EmptyDoc
  /\ Cardinality({p \in roomConns[1] : sock[p] = "OPEN"}) >= 2
  /\ FramesSent < MaxFrames

(* C15: a connection that presents an invalid token is closed with code    *)
(* 4001, is sent no frame and is in no room.                               *)
C15_InvalidTokenClosed ==
  \A c \in Conns : tokenKind[c] = "invalid" =>
    \/ sock[c] = "REFUSED"
    \/ /\ sock[c] \in {"CLOSING", "CLOSED"}
       /\ closeCode[c] = 4001
       /\ pc[c] = "done" /\ userId[c] = NoUser
       /\ NeverJoined(c)

\* the socket of an invalid token is closed while the room has a member
C15_Witness ==
  \E c, p \in Conns :
    /\ tokenKind[c] = "invalid" /\ closeCode[c] = 4001 /\ sock[c] = "CLOSED"
    /\ Member(p) /\ sock[p] = "OPEN"

(* C16: only a verified user who owns the recipe or collaborates on it is  *)
(* in a room; an unknown recipe closes with 4004 and a user without access *)
(* with 4003, and such a connection is in no room, is sent no frame, and   *)
(* constructs no room.                                                     *)
C16_AuthorizationGate ==
  /\ [](\A c \in Conns :
          /\ (Member(c) \/ room[c] # NoRoom \/ outbox[c] # <<>>) =>
                /\ tokenKind[c] = "valid"
                /\ recipeId[c] \in Docs
                /\ userId[c] \in {Owner(recipeId[c])} \cup Collaborators(recipeId[c])
                /\ closeCode[c] = 0
          /\ closeCode[c] \in {4004, 4003} => NeverJoined(c))
  /\ [][\A c \in Conns :
          /\ (pc[c] = "awaitRecipe" /\ recipeId[c] \notin Docs /\ pc'[c] # pc[c]) =>
                /\ pc'[c] = "done" /\ nextRoom' = nextRoom
                /\ sock[c] = "OPEN" => closeCode'[c] \in {4004, 4000}
          /\ (pc[c] = "awaitCollab" /\ userId[c] \notin Collaborators(recipeId[c]) /\ pc'[c] # pc[c]) =>
                /\ pc'[c] = "done" /\ nextRoom' = nextRoom
                /\ sock[c] = "OPEN" => closeCode'[c] \in {4003, 4000}
          /\ (closeCode'[c] = 4004 /\ closeCode[c] = 0) => recipeId[c] \notin Docs
          /\ (closeCode'[c] = 4003 /\ closeCode[c] = 0) =>
                userId[c] \notin {Owner(recipeId[c])} \cup Collaborators(recipeId[c])]_vars

C16_Witness ==
  \E c, p \in Conns : closeCode[c] = 4004 /\ closeCode[p] = 4003 /\ nextRoom = 1

C19_DistinctCloseCodes ==
  \A c, p \in Conns :
    (closeReason[c] # "" /\ closeReason[p] # "" /\ closeReason[c] # closeReason[p])
      => closeCode[c] # closeCode[p]

(* C20: a joined connection that has stopped answering pings has been      *)
(* terminated once two heartbeat ticks have passed over it, and once its   *)
(* close event has run, which is before the next tick, it is in no room.   *)
C20_BoundedEviction ==
  \A c \in Conns : (silent[c] /\ missed[c] >= 2) =>
    /\ sock[c] \in {"TERMINATED", "CLOSED"}
    /\ sock[c] = "CLOSED" => ~Member(c)

\* a client that answered its ping went silent only then, was pinged once
\* more and terminated at the second tick; its peer is still in the room
C20_Witness ==
  \E c, p \in Conns :
    /\ silent[c] /\ missed[c] = 2 /\ sock[c] = "CLOSED" /\ ~pinged[c] /\ ~Member(c)
    /\ p # c /\ Member(p) /\ sock[p] = "OPEN" /\ isAlive[p] = "yes"

(* C21: the close event of a socket the monitor terminated removes it from *)
(* its room, and when it was the last member a save of the room's state is *)
(* issued and the registry entry is deleted, as for any other close.       *)
C21_TerminateCleansUp ==
  [][\A c \in Conns : (sock[c] = "TERMINATED" /\ sock'[c] = "CLOSED") =>
       /\ \A r \in RoomIds : c \notin roomConns'[r]
       /\ (pc[c] = "active" /\ roomConns[room[c]] = {c}) =>
             /\ rooms'[recipeId[c]] = NoRoom
             /\ \E w \in inflight' \ inflight :
                   w.doc = recipeId[c] /\ w.room = room[c] /\ w.state = roomDoc[room[c]]]_vars

\* a joined client fell silent and was terminated as the last member of its
\* room: the room is gone from the registry and its save is issued
C21_Witness ==
  \E c \in Conns :
    /\ silent[c] /\ missed[c] >= 1 /\ sock[c] = "CLOSED" /\ pc[c] = "active"
    /\ roomConns[room[c]] = {} /\ rooms[recipeId[c]] = NoRoom
    /\ \E w \in inflight : w.room = room[c] /\ w.cause = "close"

(* C22: the monitor terminates an open connection only if a ping was sent  *)
(* to it and no pong has come back since.                                  *)
C22_TerminatedOnlyIfUnanswered ==
  [][\A c \in Conns : (sock[c] = "OPEN" /\ sock'[c] = "TERMINATED") => pinged[c]]_vars

(* C28: what a save has written to storage is never lost from storage by a *)
(* later save.                                                             *)
C28_StorageNeverRegresses ==
  [][\A d \in Docs : storage[d] \subseteq storage'[d]]_vars

(* C27: a joined connection whose user has lost access to the recipe (the  *)
(* collaborator row or the recipe was deleted) is closed by the server,    *)
(* and no frame it sends is applied or relayed.                            *)
C27_RevocationCloses ==
  /\ [](\A c \in Conns : (pc[c] = "active" /\ sock[c] = "OPEN") => HasAccess(userId[c], recipeId[c]))
  /\ [][\A c \in Conns :
          (sendCount'[c] # sendCount[c] /\ pc[c] = "active" /\ ~HasAccess(userId[c], recipeId[c]))
            => RelayUntouched]_vars

(* C30: a frame sent by a connection whose user is a viewer of the recipe  *)
(* is not applied, relayed or persisted.                                   *)
C30_ViewerCannotMutate ==
  [][\A c \in Conns :
       (sendCount'[c] # sendCount[c] /\ pc[c] = "active" /\ recipeId[c] \in Docs
          /\ collabRows[recipeId[c]][userId[c]] = "viewer")
         => RelayUntouched]_vars

(* C23: while a connection is joined to a room with its socket open, the   *)
(* presence store holds an entry with field null for its recipe and user;  *)
(* when no connection of the user is joined to the recipe's room any more, *)
(* the entry is gone.                                                      *)
C23_PresenceFollowsMembership ==
  /\ \A c \in Conns : (pc[c] = "active" /\ sock[c] = "OPEN") =>
        /\ presence[recipeId[c]][userId[c]] # NoEntry
        /\ presence[recipeId[c]][userId[c]].field = "null"
  /\ \A d \in Docs, u \in Users :
        (\A c \in Conns : ~(Member(c) /\ recipeId[c] = d /\ userId[c] = u))
          => presence[d][u] = NoEntry

(* C24: a presence entry is gone one time-to-live after it was written,    *)
(* whatever is written for other users of the recipe meanwhile.            *)
C24_EntryExpiresOnItsOwn ==
  \A d \in Docs, u \in Users :
    presence[d][u] # NoEntry => now - presence[d][u].timestamp <= PresenceTtl

(* C25: two clients joined to the same room, every edit of which went      *)
(* through the relay, hold the same state once every frame has been        *)
(* received, and it is the state of the room.                              *)
C25_Convergence ==
  \A h, g \in Hooks : \A c, b \in Conns :
    (/\ h # g /\ Settled(h, c) /\ Settled(g, b)
     /\ room[c] = room[b]
     /\ Edits(h) \cup Edits(g) \subseteq roomDoc[room[c]])
      => /\ clientDoc[h] = clientDoc[g]
         /\ clientDoc[h] = roomDoc[room[c]]

\* both clients have edited and each holds the edits of both
C25_Witness ==
  \E c, b \in Conns :
    /\ Settled("h1", c) /\ Settled("h2", b) /\ room[c] = room[b]
    /\ edits["h1"] >= 1 /\ edits["h2"] >= 1
    /\ roomDoc[room[c]] = Edits("h1") \cup Edits("h2")
    /\ clientDoc["h1"] = roomDoc[room[c]]

(* C26: once a client that lost its connection is connected and joined     *)
(* again and every frame has been received, the room holds every edit the  *)
(* client has made.                                                        *)
C26_OfflineEditsMerged ==
  \A h \in Hooks : \A c \in Conns :
    (Settled(h, c) /\ Reconnected(h, c)) => Edits(h) \subseteq roomDoc[room[c]]

(* C29: once the cleanup of a hook has run, no socket the hook created is  *)
(* connecting or open, and no reconnect is scheduled.                      *)
C29_NothingOpenAfterCleanup ==
  \A h \in Hooks : destroyed[h] =>
    /\ ~reconnectTimer[h]
    /\ \A c \in Conns : sockHook[c] = h => ReadyState(c) \notin {"CONNECTING", "OPEN"}
====
